---------------------------- MODULE Spec2Model ----------------------------
(***************************************************************************)
(* Model of App/bootstrap_spec_vectorstore.py.                             *)
(*                                                                         *)
(* One run of the script is main(): parse the command line, check the two  *)
(* required secrets, fetch the spec from GitHub, create or reuse a vector  *)
(* store, upload the spec and wait for the file batch, create or update    *)
(* the assistant, print the summary.  The remote side (the vector stores   *)
(* and assistants that exist at OpenAI) outlives a run, so the model keeps *)
(* it across a bounded number of runs; everything else is reset when a     *)
(* new process starts.                                                     *)
(*                                                                         *)
(* Python's None is the value None below; os.environ.get(k) of an unset    *)
(* variable is None, of a variable set to the empty string is "".          *)
(***************************************************************************)
EXTENDS Integers, Sequences, FiniteSets, TLC

VARIABLES
    pc,            \* position of the running process inside main()
    runs,          \* number of processes started so far
    argv,          \* what the command line holds: "ok", "missing_required", "help"
    environ,       \* os.environ.get(name) for the variables main() reads
    fetch_status,  \* r.status_code of the GitHub answer (NoResponse before it, or when no answer came)
    vs_id,         \* main()'s local vs_id
    assistant_id,  \* main()'s local assistant_id
    batch,         \* the file batch of this run's upload_and_poll, as the service holds it
    exc,           \* the exception that ended the run (type "none" when there is none)
    exitCode,      \* exit status of the process (NotExited while it runs)
    printed,       \* the two identifiers of the final summary, or NothingPrinted
    stores,        \* remote: vector store id -> number of ingested files
    assistants,    \* remote: assistant id -> [tools, vector_store_ids]
    calls,         \* history: the remote calls this run issued, in order, with their outcome
    created_vs,    \* history: id generated by this run's vector_stores.create (None if none)
    upload_target, \* history: vector_store_id this run's upload was sent to (None if none)
    snap,          \* history: remote state when this run started
    last_out,      \* history: <<vs, assistant>> printed by the last successful run, while
                   \* every run since was given exactly these two ids (else <<None, None>>)
    touched        \* history: assistants some run of the script created or updated

vars == <<pc, runs, argv, environ, fetch_status, vs_id, assistant_id, batch, exc,
          exitCode, printed, stores, assistants, calls, created_vs, upload_target,
          snap, last_out, touched>>

-----------------------------------------------------------------------------
(* Bounds and value sets                                                   *)

MaxRuns == 2

None == "<None>"
NotExited == 0 - 1
NoResponse == 0 - 1

ArgvShapes == {"ok", "missing_required", "help"}
TokenValues == {None, "", "ghp_x"}
ApiKeyValues == {None, "", "sk-x"}
HttpStatuses == {200, 404, 500}
TerminalStatuses == {"completed", "failed", "cancelled"}

NoCounts == [completed |-> 0, failed |-> 0, cancelled |-> 0, total |-> 0]
NoBatch == [status |-> "none", file_counts |-> NoCounts, vector_store_id |-> None]
NoExc == [type |-> "none", status |-> "none", file_counts |-> NoCounts]
NothingPrinted == [vs |-> None, assistant |-> None]

FILE_SEARCH == "file_search"

-----------------------------------------------------------------------------
(* Python and library semantics the script relies on                       *)

\* Truth value of an Optional[str]: None and "" are falsy.
Truthy(v) == v # None /\ v # ""

\* `if not gh_token` / `if not os.environ.get("OPENAI_API_KEY")`.
SecretMissing_OnlyWhenUnset(v) == v = None

SecretMissing(v) == ~Truthy(v)

\* What fetch_spec_from_github does with the answer: 404 raises
\* FileNotFoundError, raise_for_status() raises HTTPError for any other
\* 4xx/5xx, otherwise r.content is returned.
FetchOutcome_404NotRaised(status) ==
    IF status >= 400 /\ status # 404 THEN "HTTPError" ELSE "ok"

FetchOutcome_NoRaiseForStatus(status) ==
    IF status = 404 THEN "FileNotFoundError" ELSE "ok"

FetchOutcome(status) ==
    IF status = 404 THEN "FileNotFoundError"
    ELSE IF status >= 400 THEN "HTTPError"
    ELSE "ok"

\* `if vector_store_id:` in ensure_vector_store.
ReuseVectorStore_Never(given) == FALSE

ReuseVectorStore(given) == Truthy(given)

\* The value ensure_vector_store returns: the given id, or vs.id of the
\* store it created.
VectorStoreResult_AlwaysGiven(given, created) == given

VectorStoreResult(given, created) ==
    IF ReuseVectorStore(given) THEN given ELSE created

\* `if batch.status != "completed": raise RuntimeError(...)`.
BatchCompleted_Unchecked(status) == TRUE

BatchCompleted(status) == status = "completed"

\* upload_and_poll returns once the batch is no longer in progress.
PollDone_OnlyCompleted(status) == status = "completed"

PollDone(status) == status \in TerminalStatuses

\* `if assistant_id:` in ensure_assistant_with_fs.
ReuseAssistant_Never(given) == FALSE

ReuseAssistant(given) == Truthy(given)

\* tools=[{"type": "file_search"}]: the tool list an update or create sends;
\* the service replaces the assistant's list by it.
AssistantTools_Appended(old) == old \o <<FILE_SEARCH>>

AssistantTools(old) == <<FILE_SEARCH>>

\* tool_resources={"file_search": {"vector_store_ids": [vs_id]}}: the index
\* list an update or create sends; the service replaces the list by it.
AssistantStores_Appended(old, vs) == old \o <<vs>>

AssistantStores(old, vs) == <<vs>>

\* Identifiers the service generates: never one it handed out before.
NewVectorStoreId == "vs_" \o ToString(Cardinality(DOMAIN stores) + 1)
NewAssistantId == "asst_" \o ToString(Cardinality(DOMAIN assistants) + 1)

\* Values VECTOR_STORE_ID / ASSISTANT_ID can hold: unset, empty, an id the
\* service does not know, or an id of an existing resource.
VectorStoreIdValues == {None, "", "vs_unknown"} \cup DOMAIN stores
AssistantIdValues == {None, "", "asst_unknown"} \cup DOMAIN assistants

\* file_counts of a one-file batch that ended with the given status.
FileCounts(status) ==
    [completed |-> IF status = "completed" THEN 1 ELSE 0,
     failed    |-> IF status = "failed" THEN 1 ELSE 0,
     cancelled |-> IF status = "cancelled" THEN 1 ELSE 0,
     total     |-> 1]

Call(op, ok) == [op |-> op, ok |-> ok]

\* The process dies: sys.exit(code), or an uncaught exception (status 1).
Exit(code) == pc' = "exited" /\ exitCode' = code

Raise(type, status, counts) ==
    /\ exc' = [type |-> type, status |-> status, file_counts |-> counts]
    /\ Exit(1)

-----------------------------------------------------------------------------
(* Initial state: no process yet.  The service may already hold an         *)
(* assistant (and the store bound to it) that was set up by other means.   *)

process_locals == <<fetch_status, vs_id, assistant_id, exc, exitCode, printed>>
remote == <<stores, assistants, batch>>
history == <<calls, created_vs, upload_target, snap, last_out, touched>>

Init ==
    /\ pc = "idle"
    /\ runs = 0
    /\ argv = "ok"
    /\ environ = [GITHUB_TOKEN |-> None, OPENAI_API_KEY |-> None,
                  VECTOR_STORE_ID |-> None, ASSISTANT_ID |-> None]
    /\ fetch_status = NoResponse
    /\ vs_id = None
    /\ assistant_id = None
    /\ batch = NoBatch
    /\ exc = NoExc
    /\ exitCode = NotExited
    /\ printed = NothingPrinted
    /\ stores = [s \in {"vs_0"} |-> 1]
    /\ \E old \in {[tools |-> <<"code_interpreter">>, vector_store_ids |-> <<>>],
                   [tools |-> <<FILE_SEARCH>>, vector_store_ids |-> <<"vs_0">>]} :
           assistants = [a \in {"asst_0"} |-> old]
    /\ calls = <<>>
    /\ created_vs = None
    /\ upload_target = None
    /\ snap = [stores |-> DOMAIN stores, assistants |-> assistants]
    /\ last_out = <<None, None>>
    /\ touched = {}

\* A new process is started (`python bootstrap_spec_vectorstore.py ...`) with
\* some command line and some environment.
StartRun ==
    /\ pc \in {"idle", "exited"}
    /\ runs < MaxRuns
    /\ \E a \in ArgvShapes, tok \in TokenValues, key \in ApiKeyValues,
          vs \in VectorStoreIdValues, asst \in AssistantIdValues :
          /\ argv' = a
          /\ environ' = [GITHUB_TOKEN |-> tok, OPENAI_API_KEY |-> key,
                         VECTOR_STORE_ID |-> vs, ASSISTANT_ID |-> asst]
    /\ pc' = "parse_args"
    /\ runs' = runs + 1
    /\ fetch_status' = NoResponse
    /\ vs_id' = None
    /\ assistant_id' = None
    /\ batch' = NoBatch
    /\ exc' = NoExc
    /\ exitCode' = NotExited
    /\ printed' = NothingPrinted
    /\ calls' = <<>>
    /\ created_vs' = None
    /\ upload_target' = None
    /\ snap' = [stores |-> DOMAIN stores, assistants |-> assistants]
    /\ last_out' = IF exitCode = 0 /\ printed # NothingPrinted
                   THEN <<printed.vs, printed.assistant>>
                   ELSE IF <<environ.VECTOR_STORE_ID, environ.ASSISTANT_ID>> = last_out
                   THEN last_out
                   ELSE <<None, None>>
    /\ UNCHANGED <<stores, assistants, touched>>

\* ap.parse_args(): a missing required --owner/--repo is a usage error
\* (argparse exits with status 2), --help prints the help and exits 0.
ParseArgs ==
    /\ pc = "parse_args"
    /\ CASE argv = "missing_required" -> Exit(2)
         [] argv = "help" -> Exit(0)
         [] OTHER -> pc' = "check_secrets" /\ UNCHANGED exitCode
    /\ UNCHANGED <<runs, argv, environ, fetch_status, vs_id, assistant_id, exc,
                   printed, remote, history>>

\* The two `if not ...: sys.exit(1)` checks.
CheckSecrets ==
    /\ pc = "check_secrets"
    /\ IF SecretMissing(environ.GITHUB_TOKEN) THEN Exit(1)
       ELSE IF SecretMissing(environ.OPENAI_API_KEY) THEN Exit(1)
       ELSE pc' = "fetch" /\ UNCHANGED exitCode
    /\ UNCHANGED <<runs, argv, environ, fetch_status, vs_id, assistant_id, exc,
                   printed, remote, history>>

\* fetch_spec_from_github: one GET; the answer has some status, or no answer
\* comes within the timeout and requests raises.
FetchSpec ==
    /\ pc = "fetch"
    /\ \/ \E status \in HttpStatuses :
             /\ fetch_status' = status
             /\ calls' = Append(calls, Call("fetch", status = 200))
             /\ IF FetchOutcome(status) = "ok"
                THEN pc' = "ensure_vector_store" /\ UNCHANGED <<exc, exitCode>>
                ELSE Raise(FetchOutcome(status), "none", NoCounts)
       \/ /\ calls' = Append(calls, Call("fetch", FALSE))
          /\ Raise("ConnectionError", "none", NoCounts)
          /\ UNCHANGED fetch_status
    /\ UNCHANGED <<runs, argv, environ, vs_id, assistant_id, printed, remote,
                   created_vs, upload_target, snap, last_out, touched>>

\* client = OpenAI(); vs_id = ensure_vector_store(client, VECTOR_STORE_ID, name).
EnsureVectorStore ==
    /\ pc = "ensure_vector_store"
    /\ IF ReuseVectorStore(environ.VECTOR_STORE_ID)
       THEN /\ vs_id' = VectorStoreResult(environ.VECTOR_STORE_ID, None)
            /\ pc' = "upload"
            /\ UNCHANGED <<stores, calls, created_vs, exc, exitCode>>
       ELSE \/ /\ stores' = [s \in DOMAIN stores \cup {NewVectorStoreId} |->
                               IF s \in DOMAIN stores THEN stores[s] ELSE 0]
               /\ created_vs' = NewVectorStoreId
               /\ calls' = Append(calls, Call("create_vector_store", TRUE))
               /\ vs_id' = VectorStoreResult(environ.VECTOR_STORE_ID, NewVectorStoreId)
               /\ pc' = "upload"
               /\ UNCHANGED <<exc, exitCode>>
            \/ /\ calls' = Append(calls, Call("create_vector_store", FALSE))
               /\ Raise("APIError", "none", NoCounts)
               /\ UNCHANGED <<stores, created_vs, vs_id>>
    /\ UNCHANGED <<runs, argv, environ, fetch_status, assistant_id, printed,
                   assistants, batch, upload_target, snap, last_out, touched>>

\* upload_spec_to_vector_store, first half: upload_and_poll submits the one
\* file as a batch of the store vs_id.  A store the service does not know is
\* refused; any call can fail.
UploadSpec ==
    /\ pc = "upload"
    /\ upload_target' = vs_id
    /\ \/ /\ vs_id \in DOMAIN stores
          /\ batch' = [status |-> "in_progress", file_counts |-> NoCounts,
                       vector_store_id |-> vs_id]
          /\ calls' = Append(calls, Call("upload", TRUE))
          /\ pc' = "poll"
          /\ UNCHANGED <<exc, exitCode>>
       \/ /\ calls' = Append(calls, Call("upload", FALSE))
          /\ Raise(IF vs_id \in DOMAIN stores THEN "APIError" ELSE "NotFoundError",
                   "none", NoCounts)
          /\ UNCHANGED batch
    /\ UNCHANGED <<runs, argv, environ, fetch_status, vs_id, assistant_id, printed,
                   stores, assistants, created_vs, snap, last_out, touched>>

\* The service works on the batch and brings it to a terminal status.
BatchProgress ==
    /\ batch.status = "in_progress"
    /\ \E status \in TerminalStatuses :
          /\ batch' = [batch EXCEPT !.status = status,
                                    !.file_counts = FileCounts(status)]
          /\ stores' = IF status = "completed"
                       THEN [stores EXCEPT ![batch.vector_store_id] = @ + 1]
                       ELSE stores
    /\ UNCHANGED <<pc, runs, argv, environ, process_locals, assistants, history>>

\* upload_spec_to_vector_store, second half: upload_and_poll returns the
\* batch once it is terminal, and the status is checked.
PollReturn ==
    /\ pc = "poll"
    /\ PollDone(batch.status)
    /\ IF BatchCompleted(batch.status)
       THEN pc' = "ensure_assistant" /\ UNCHANGED <<exc, exitCode>>
       ELSE Raise("RuntimeError", batch.status, batch.file_counts)
    /\ UNCHANGED <<runs, argv, environ, fetch_status, vs_id, assistant_id, printed,
                   remote, history>>

\* assistant_id = ensure_assistant_with_fs(client, ASSISTANT_ID, vs_id, ...).
EnsureAssistant ==
    /\ pc = "ensure_assistant"
    /\ IF ReuseAssistant(environ.ASSISTANT_ID)
       THEN \/ /\ environ.ASSISTANT_ID \in DOMAIN assistants
               /\ assistants' =
                    [assistants EXCEPT ![environ.ASSISTANT_ID] =
                        [tools |-> AssistantTools(@.tools),
                         vector_store_ids |-> AssistantStores(@.vector_store_ids, vs_id)]]
               /\ calls' = Append(calls, Call("update_assistant", TRUE))
               /\ assistant_id' = environ.ASSISTANT_ID
               /\ touched' = touched \cup {environ.ASSISTANT_ID}
               /\ pc' = "summary"
               /\ UNCHANGED <<exc, exitCode>>
            \/ /\ calls' = Append(calls, Call("update_assistant", FALSE))
               /\ Raise(IF environ.ASSISTANT_ID \in DOMAIN assistants
                        THEN "APIError" ELSE "NotFoundError", "none", NoCounts)
               /\ UNCHANGED <<assistants, assistant_id, touched>>
       ELSE \/ /\ assistants' =
                    [a \in DOMAIN assistants \cup {NewAssistantId} |->
                        IF a \in DOMAIN assistants THEN assistants[a]
                        ELSE [tools |-> AssistantTools(<<>>),
                              vector_store_ids |-> AssistantStores(<<>>, vs_id)]]
               /\ calls' = Append(calls, Call("create_assistant", TRUE))
               /\ assistant_id' = NewAssistantId
               /\ touched' = touched \cup {NewAssistantId}
               /\ pc' = "summary"
               /\ UNCHANGED <<exc, exitCode>>
            \/ /\ calls' = Append(calls, Call("create_assistant", FALSE))
               /\ Raise("APIError", "none", NoCounts)
               /\ UNCHANGED <<assistants, assistant_id, touched>>
    /\ UNCHANGED <<runs, argv, environ, fetch_status, vs_id, printed, stores, batch,
                   created_vs, upload_target, snap, last_out>>

\* The final prints; main() returns and the process ends with status 0.
PrintSummary ==
    /\ pc = "summary"
    /\ printed' = [vs |-> vs_id, assistant |-> assistant_id]
    /\ Exit(0)
    /\ UNCHANGED <<runs, argv, environ, fetch_status, vs_id, assistant_id, exc,
                   remote, history>>

Next ==
    \/ StartRun
    \/ ParseArgs
    \/ CheckSecrets
    \/ FetchSpec
    \/ EnsureVectorStore
    \/ UploadSpec
    \/ BatchProgress
    \/ PollReturn
    \/ EnsureAssistant
    \/ PrintSummary

Spec == Init /\ [][Next]_vars

\* Scheduling: a started process keeps executing, every call returns, and the
\* service finishes every batch.  Whether another process is ever started is
\* left open.
Fairness ==
    /\ WF_vars(ParseArgs)
    /\ WF_vars(CheckSecrets)
    /\ WF_vars(FetchSpec)
    /\ WF_vars(EnsureVectorStore)
    /\ WF_vars(UploadSpec)
    /\ WF_vars(BatchProgress)
    /\ WF_vars(PollReturn)
    /\ WF_vars(EnsureAssistant)
    /\ WF_vars(PrintSummary)

FairSpec == Spec /\ Fairness

-----------------------------------------------------------------------------
(* Vocabulary of the properties                                            *)

CallOps == {calls[i].op : i \in DOMAIN calls}
CountCalls(op) == Cardinality({i \in DOMAIN calls : calls[i].op = op})
AssistantOps == {"update_assistant", "create_assistant"}
IndexOps == {"create_vector_store", "upload"}

Rank(op) ==
    CASE op = "fetch" -> 1
      [] op = "create_vector_store" -> 2
      [] op = "upload" -> 3
      [] OTHER -> 4

Running == pc \notin {"idle", "exited"}
TokenAbsent == environ.GITHUB_TOKEN \in {None, ""}
ApiKeyAbsent == environ.OPENAI_API_KEY \in {None, ""}
RemoteUntouched == DOMAIN stores = snap.stores /\ assistants = snap.assistants

\* The fetch returned the content, and ensure_vector_store has returned or raised.
IndexStepDone ==
    /\ calls # <<>>
    /\ calls[1].ok
    /\ pc # "ensure_vector_store"

\* ensure_assistant_with_fs has issued its call.
AssistantStepDone == CallOps \cap AssistantOps # {}

RetrievalBinding(vs) == [tools |-> <<FILE_SEARCH>>, vector_store_ids |-> <<vs>>]

-----------------------------------------------------------------------------
(* C1 *)

SecretCheckEndsRun ==
    /\ calls = <<>>
    /\ pc \in {"parse_args", "check_secrets", "exited"}
    /\ pc = "exited" => exitCode = 1 /\ RemoteUntouched

\* C1, as stated: whenever GITHUB_TOKEN or OPENAI_API_KEY is unset or empty,
\* the run ends with exit status 1 and has issued no remote call, whatever
\* the rest of the configuration (command line included) is.
C1_Original ==
    (pc # "idle" /\ (TokenAbsent \/ ApiKeyAbsent)) => SecretCheckEndsRun

\* C1, amended: the same, for a run whose command line parses (required
\* --owner and --repo given, no --help).
C1_MissingSecretExits1 ==
    (pc # "idle" /\ argv = "ok" /\ (TokenAbsent \/ ApiKeyAbsent)) => SecretCheckEndsRun

C1_Witness ==
    /\ pc = "exited" /\ argv = "ok" /\ exitCode = 1
    /\ environ.GITHUB_TOKEN = "ghp_x" /\ environ.OPENAI_API_KEY = ""
    /\ environ.VECTOR_STORE_ID = "vs_0" /\ environ.ASSISTANT_ID = "asst_0"

(* C2 *)

\* C2: a 404 answer to the fetch raises FileNotFoundError (and only a 404
\* does), the run is over, and its only remote call was the fetch: no vector
\* store or assistant was created, written or updated.
C2_NotFoundAborts ==
    /\ (exc.type = "FileNotFoundError") <=> (fetch_status = 404)
    /\ fetch_status = 404 =>
          /\ pc = "exited"
          /\ exitCode = 1
          /\ calls = <<Call("fetch", FALSE)>>
          /\ RemoteUntouched
          /\ batch = NoBatch
          /\ printed = NothingPrinted

C2_Witness ==
    /\ fetch_status = 404 /\ pc = "exited"
    /\ environ.VECTOR_STORE_ID = "vs_0" /\ environ.ASSISTANT_ID = "asst_0"

(* C3 *)

\* C3: once upload_and_poll has returned a batch whose status is not
\* "completed", the run is over with a RuntimeError carrying that status and
\* the batch's file counts; no assistant call was issued, no assistant
\* changed, and no summary was printed.
C3_FailedBatchStopsRun ==
    (batch.status \in TerminalStatuses \ {"completed"} /\ pc # "poll") =>
        /\ pc = "exited"
        /\ exitCode = 1
        /\ exc = [type |-> "RuntimeError", status |-> batch.status,
                  file_counts |-> batch.file_counts]
        /\ ~AssistantStepDone
        /\ assistant_id = None
        /\ assistants = snap.assistants
        /\ printed = NothingPrinted

C3_Witness ==
    /\ pc = "exited" /\ batch.status = "failed" /\ batch.file_counts.failed = 1
    /\ exc.type = "RuntimeError" /\ environ.ASSISTANT_ID = "asst_0"

(* C4 *)

VectorStoreReused ==
    /\ vs_id = environ.VECTOR_STORE_ID
    /\ "create_vector_store" \notin CallOps
    /\ created_vs = None
    /\ pc = "upload" => calls = <<Call("fetch", TRUE)>> /\ RemoteUntouched

\* C4, as stated: when VECTOR_STORE_ID is set to any value, the empty string
\* included, ensure_vector_store issues no call and returns that value.
C4_Original ==
    (IndexStepDone /\ environ.VECTOR_STORE_ID # None) => VectorStoreReused

\* C4, amended: the same for every non-empty value of VECTOR_STORE_ID.
C4_SetIdIsReused ==
    (IndexStepDone /\ environ.VECTOR_STORE_ID \notin {None, ""}) => VectorStoreReused

C4_Witness ==
    /\ pc = "upload" /\ environ.VECTOR_STORE_ID = "vs_unknown" /\ vs_id = "vs_unknown"

(* C5 *)

\* C5: when VECTOR_STORE_ID is unset, a run past the fetch has issued exactly
\* one vector_stores.create, and if that call returned, the id it generated
\* is new, is vs_id, is the target of the upload, is the one store bound to
\* the run's assistant, and is the Vector Store ID of the summary.
C5_CreatedIdIsUsed ==
    (IndexStepDone /\ environ.VECTOR_STORE_ID = None) =>
        /\ CountCalls("create_vector_store") = 1
        /\ calls[2].op = "create_vector_store"
        /\ ~calls[2].ok => pc = "exited" /\ created_vs = None /\ RemoteUntouched
        /\ calls[2].ok =>
              /\ created_vs \notin snap.stores \cup {None}
              /\ DOMAIN stores = snap.stores \cup {created_vs}
              /\ vs_id = created_vs
              /\ "upload" \in CallOps <=> upload_target = created_vs
              /\ "upload" \notin CallOps <=> upload_target = None
              /\ batch # NoBatch => batch.vector_store_id = created_vs
              /\ assistant_id # None =>
                    assistants[assistant_id].vector_store_ids = <<created_vs>>
              /\ printed # NothingPrinted => printed.vs = created_vs

C5_Witness ==
    /\ exitCode = 0 /\ environ.VECTOR_STORE_ID = None
    /\ created_vs # None /\ printed.vs = created_vs /\ upload_target = created_vs

(* C6 *)

AssistantUpdated ==
    /\ CountCalls("update_assistant") = 1
    /\ CountCalls("create_assistant") = 0
    /\ DOMAIN assistants = DOMAIN snap.assistants
    /\ calls[Len(calls)].ok =>
          /\ assistant_id = environ.ASSISTANT_ID
          /\ assistants[assistant_id] = RetrievalBinding(vs_id)
          /\ printed # NothingPrinted => printed.assistant = environ.ASSISTANT_ID

\* C6, as stated: when ASSISTANT_ID is set (to any value), the assistant step
\* issues exactly one update and no create, returns that same id, and leaves
\* the assistant with exactly the file_search tool and exactly the run's store.
C6_Original ==
    (AssistantStepDone /\ environ.ASSISTANT_ID # None) => AssistantUpdated

\* C6, amended: the same for every non-empty value of ASSISTANT_ID.
C6_SetAssistantIsUpdated ==
    (AssistantStepDone /\ environ.ASSISTANT_ID \notin {None, ""}) => AssistantUpdated

C6_Witness ==
    /\ exitCode = 0 /\ environ.ASSISTANT_ID = "asst_0" /\ printed.assistant = "asst_0"
    /\ snap.assistants["asst_0"] # RetrievalBinding(vs_id)
    /\ assistants["asst_0"] = RetrievalBinding(vs_id)

(* C7 *)

\* C7: over any sequence of runs, every assistant the script created or
\* updated has at most one store in its list, and the assistant of the
\* current run has exactly the current run's store, whatever it had before.
C7_AtMostOneIndex ==
    /\ \A a \in touched :
          a \in DOMAIN assistants /\ Len(assistants[a].vector_store_ids) <= 1
    /\ assistant_id # None =>
          assistant_id \in touched /\ assistants[assistant_id].vector_store_ids = <<vs_id>>

C7_Witness ==
    /\ assistant_id \in DOMAIN snap.assistants
    /\ Len(snap.assistants[assistant_id].vector_store_ids) = 1
    /\ snap.assistants[assistant_id].vector_store_ids # <<vs_id>>
    /\ assistants[assistant_id].vector_store_ids = <<vs_id>>

(* C8 *)

\* C8: after a successful run printed store v and assistant a, throughout
\* every later run given VECTOR_STORE_ID=v and ASSISTANT_ID=a (successful or
\* not) the set of stores, the set of assistants and every assistant's tools
\* and binding are what they were when that run started, and a is bound to
\* exactly v with exactly the file_search tool.
C8_RerunIsIdempotent ==
    (/\ pc # "idle"
     /\ last_out[1] # None
     /\ environ.VECTOR_STORE_ID = last_out[1]
     /\ environ.ASSISTANT_ID = last_out[2]) =>
        /\ RemoteUntouched
        /\ created_vs = None
        /\ assistants[last_out[2]] = RetrievalBinding(last_out[1])

C8_Witness ==
    /\ exitCode = 0 /\ last_out[1] # None
    /\ environ.VECTOR_STORE_ID = last_out[1] /\ environ.ASSISTANT_ID = last_out[2]
    /\ printed = [vs |-> last_out[1], assistant |-> last_out[2]]
    /\ "update_assistant" \in CallOps

(* C9 *)

\* C9: the remote calls of a run come in the order fetch, create (optional),
\* upload, assistant create-or-update, each at most once; a call is issued
\* only after all earlier ones succeeded (the upload with a completed batch),
\* and a failed call is the last of its run, which is over.
C9_StrictOrderNoRetry ==
    /\ \A i, j \in DOMAIN calls : i < j => Rank(calls[i].op) < Rank(calls[j].op)
    /\ \A i \in DOMAIN calls : i < Len(calls) => calls[i].ok
    /\ calls # <<>> => calls[1].op = "fetch"
    /\ CallOps \cap (IndexOps \cup AssistantOps) # {} => fetch_status = 200
    /\ AssistantStepDone => "upload" \in CallOps /\ batch.status = "completed"
    /\ "upload" \in CallOps =>
          \/ vs_id = environ.VECTOR_STORE_ID
          \/ "create_vector_store" \in CallOps
    /\ (calls # <<>> /\ ~calls[Len(calls)].ok) => pc = "exited" /\ exitCode = 1
    /\ (batch.status \in TerminalStatuses \ {"completed"} /\ pc # "poll") => pc = "exited"

C9_Witness ==
    /\ exitCode = 0
    /\ [i \in DOMAIN calls |-> calls[i].op] =
          <<"fetch", "create_vector_store", "upload", "update_assistant">>

(* C10 *)

AllStepsSucceeded ==
    /\ calls # <<>>
    /\ \A i \in DOMAIN calls : calls[i].ok
    /\ "upload" \in CallOps
    /\ batch.status = "completed"
    /\ AssistantStepDone

EndedInSuccess ==
    /\ exitCode = 0
    /\ exc = NoExc
    /\ printed.vs # None /\ printed.assistant # None

EndedInMissingSecret ==
    /\ exitCode = 1
    /\ exc = NoExc
    /\ calls = <<>>
    /\ TokenAbsent \/ ApiKeyAbsent

EndedInUnhandledFailure ==
    /\ exitCode > 0
    /\ exc # NoExc
    /\ calls # <<>>
    /\ \A i \in DOMAIN calls : i < Len(calls) => calls[i].ok
    /\ \/ ~calls[Len(calls)].ok
       \/ calls[Len(calls)].op = "upload" /\ batch.status \in TerminalStatuses \ {"completed"}

OneOfThreeEndings ==
    /\ \/ EndedInSuccess /\ ~EndedInMissingSecret /\ ~EndedInUnhandledFailure
       \/ ~EndedInSuccess /\ EndedInMissingSecret /\ ~EndedInUnhandledFailure
       \/ ~EndedInSuccess /\ ~EndedInMissingSecret /\ EndedInUnhandledFailure
    /\ EndedInSuccess <=> AllStepsSucceeded

\* C10, as stated (its statement about the final result): every run that
\* has ended ended in success (status 0, both ids printed, exactly when all
\* four steps succeeded), in status 1 for a missing secret, or in an
\* unhandled failure of the first failing remote step.
C10_Original == pc = "exited" => OneOfThreeEndings

\* C10, amended: every run whose command line parses terminates, in exactly
\* one of the three endings, and a run at the upload poll leaves it once the
\* batch is terminal.
C10_RunTerminates ==
    /\ Running ~> (pc = "exited")
    /\ [](pc = "exited" /\ argv = "ok" => OneOfThreeEndings)
    /\ (pc = "poll" /\ batch.status \in TerminalStatuses) ~> (pc # "poll")

C10_Witness ==
    /\ pc = "exited" /\ argv = "ok" /\ runs = MaxRuns
    /\ exc.type = "RuntimeError" /\ batch.status = "cancelled"

=============================================================================
